---- MODULE Spec2Model ----
(***************************************************************************)
(* Model of the scraper backend (src/backend/src/main.rs): the SQLite      *)
(* table scraped_items, the Firecrawl provider as seen by scrape_handler,  *)
(* and the three HTTP handlers, each split at its .await points so that    *)
(* concurrent requests interleave exactly where the async runtime lets     *)
(* them.                                                                   *)
(***************************************************************************)
EXTENDS Integers, Sequences, FiniteSets, TLC

\* ------------------------------------------------------------------ bounds
NumProcs == 3
MaxTime == 1

Procs == 1..NumProcs
Urls == {"http://example.com", "http://example.org"}
Contents == {"# Title", "# Other"}
ItemIds == 1..Cardinality(Urls)
Times == 0..MaxTime

\* ------------------------------------------------------------------- state
VARIABLES
    db,             \* rows of scraped_items, in rowid order
    pc,             \* where each request-handling task stands
    route,          \* the route the task's request came in on
    url,            \* payload.url of the task's POST /scrape
    path_id,        \* Path(id) of the task's GET /history/:id
    existing_item,  \* the local existing_item of scrape_handler
    scrape_result,  \* what scrape_url gave this task
    resp,           \* the HTTP response the task produced
    fetchCalls      \* invocations of the Fetch Provider, per URL

vars == <<db, pc, route, url, path_id, existing_item, scrape_result, resp, fetchCalls>>

\* ------------------------------------------------------------ data shapes
NoUrl == ""
None == [tag |-> "None"]
Some(x) == [tag |-> "Some", val |-> x]
Unset == [tag |-> "Unset"]
Ok(x) == [tag |-> "Ok", val |-> x]
Err(e) == [tag |-> "Err", err |-> e]

ScrapedItem(id, u, c, t) == [id |-> id, url |-> u, content |-> c, created_at |-> t]

NoResponse == [status |-> 0, kind |-> "none", message |-> <<>>, id |-> 0,
               url |-> NoUrl, content |-> "", items |-> <<>>]

ScrapeResponse(id, u, c) ==
    [status |-> 200, kind |-> "ScrapeResponse", message |-> <<>>, id |-> id,
     url |-> u, content |-> c, items |-> <<>>]

HistoryResponse(items) ==
    [status |-> 200, kind |-> "History", message |-> <<>>, id |-> 0,
     url |-> NoUrl, content |-> "", items |-> items]

ItemResponse(item) ==
    [status |-> 200, kind |-> "Item", message |-> <<>>, id |-> item.id,
     url |-> item.url, content |-> item.content, items |-> <<item>>]

ErrorResponse(status, message) ==
    [status |-> status, kind |-> "ErrorResponse", message |-> message, id |-> 0,
     url |-> NoUrl, content |-> "", items |-> <<>>]

\* ------------------------------------------------------------- AppError
\* sqlx errors the handlers can meet: a missing row, the UNIQUE constraint
\* on url, and any other failure of the pool or the file (Io).
SqlxRowNotFound == "RowNotFound"
SqlxUnique == "UNIQUE constraint failed: scraped_items.url"
SqlxIo == "Io"
FirecrawlFailure == "FirecrawlError"

AppErrorSqlx(e) == [variant |-> "Sqlx", detail |-> e]
AppErrorFirecrawl(e) == [variant |-> "Firecrawl", detail |-> e]
AppErrorInternal(msg) == [variant |-> "Internal", detail |-> msg]
AppErrorNotFound(msg) == [variant |-> "NotFound", detail |-> msg]

NoMarkdownMsg == "Firecrawl did not return Markdown content"
ItemNotFoundMsg == "Item not found in database"

FromSqlxNoNotFound(err) == AppErrorSqlx(err)

FromSqlx(err) ==
    IF err = SqlxRowNotFound
    THEN AppErrorNotFound(ItemNotFoundMsg)
    ELSE AppErrorSqlx(err)

FromFirecrawl(err) == AppErrorFirecrawl(err)

IntoResponse(e) ==
    CASE e.variant = "Sqlx" ->
            ErrorResponse(500, <<"Database operation failed: ", e.detail>>)
      [] e.variant = "Firecrawl" ->
            ErrorResponse(500, <<"Scraping service failed: ", e.detail>>)
      [] e.variant = "Internal" -> ErrorResponse(500, <<e.detail>>)
      [] e.variant = "NotFound" -> ErrorResponse(404, <<e.detail>>)

\* --------------------------------------------------------- Content Store
RECURSIVE MaxId(_)
MaxId(d) == IF d = <<>> THEN 0
            ELSE LET m == MaxId(Tail(d)) IN IF Head(d).id > m THEN Head(d).id ELSE m

Rows(d) == {d[i] : i \in 1..Len(d)}
RowsWithUrl(d, u) == {r \in Rows(d) : r.url = u}
RowsWithId(d, id) == {r \in Rows(d) : r.id = id}

\* SELECT * FROM scraped_items WHERE url = ?1, fetch_optional
FetchOptionalBlind(d, u) == None

FetchOptional(d, u) ==
    IF RowsWithUrl(d, u) = {} THEN None
    ELSE Some(CHOOSE r \in RowsWithUrl(d, u) : TRUE)

\* SELECT ... WHERE id = ?1, fetch_one
FetchOne(d, id) ==
    IF RowsWithId(d, id) = {} THEN Err(SqlxRowNotFound)
    ELSE Ok(CHOOSE r \in RowsWithId(d, id) : TRUE)

\* INSERT INTO scraped_items (url, content) VALUES (?1, ?2) under
\* id INTEGER PRIMARY KEY AUTOINCREMENT, url UNIQUE, created_at DEFAULT now
InsertNoUnique(d, u, c, t) ==
    [result |-> Ok(MaxId(d) + 1),
     db |-> Append(d, ScrapedItem(MaxId(d) + 1, u, c, t))]

InsertOrReplace(d, u, c, t) ==
    [result |-> Ok(MaxId(d) + 1),
     db |-> Append(SelectSeq(d, LAMBDA r : r.url # u),
                   ScrapedItem(MaxId(d) + 1, u, c, t))]

InsertZeroBased(d, u, c, t) ==
    IF RowsWithUrl(d, u) # {}
    THEN [result |-> Err(SqlxUnique), db |-> d]
    ELSE [result |-> Ok(MaxId(d)),
          db |-> Append(d, ScrapedItem(MaxId(d), u, c, t))]

Insert(d, u, c, t) ==
    IF RowsWithUrl(d, u) # {}
    THEN [result |-> Err(SqlxUnique), db |-> d]
    ELSE [result |-> Ok(MaxId(d) + 1),
          db |-> Append(d, ScrapedItem(MaxId(d) + 1, u, c, t))]

\* ------------------------------------------------ client state (app.rs)
MaxSubmits == 3

VARIABLES
    input_url,               \* TemplateApp.input_url
    app_markdown_content,    \* TemplateApp.markdown_content
    error_message,           \* TemplateApp.error_message
    scrape_promise,          \* TemplateApp.scrape_promise and what its unit of work has sent
    scrape_history,          \* TemplateApp.scrape_history
    selected_history_index,  \* TemplateApp.selected_history_index (0-based)
    is_displaying_result,    \* TemplateApp.is_displaying_result
    selected_scraper,        \* TemplateApp.selected_scraper
    frame,                   \* where update() stands: before the promise check or after it
    submitted,               \* units of work dispatched so far; the last one's number
    applied,                 \* numbers of the units whose result update() applied
    displaced                \* numbers of the units whose handle was overwritten

clientVars == <<input_url, app_markdown_content, error_message, scrape_promise,
                scrape_history, selected_history_index, is_displaying_result,
                selected_scraper, frame, submitted, applied, displaced>>

InitClient ==
    /\ input_url = ""
    /\ app_markdown_content = None
    /\ error_message = None
    /\ scrape_promise = None
    /\ scrape_history = <<>>
    /\ selected_history_index = None
    /\ is_displaying_result = FALSE
    /\ selected_scraper = "Firecrowl"
    /\ frame = "resolve"
    /\ submitted = 0
    /\ applied = {}
    /\ displaced = {}

\* ------------------------------------------------------------------- Init
Init ==
    /\ db = <<>>
    /\ pc = [p \in Procs |-> "idle"]
    /\ route = [p \in Procs |-> ""]
    /\ url = [p \in Procs |-> NoUrl]
    /\ path_id = [p \in Procs |-> 0]
    /\ existing_item = [p \in Procs |-> Unset]
    /\ scrape_result = [p \in Procs |-> Unset]
    /\ resp = [p \in Procs |-> NoResponse]
    /\ fetchCalls = [u \in Urls |-> 0]
    /\ InitClient

\* Requests are numbered in their order of arrival: task p takes the p-th.
Arrives(p) ==
    /\ pc[p] = "idle"
    /\ \A q \in Procs : q < p => pc[q] # "idle"

\* CURRENT_TIMESTAMP at an INSERT: whole seconds, never earlier than a stored one.
Timestamps(d) == {t \in Times : \A r \in Rows(d) : r.created_at <= t}

Respond(p, r) ==
    /\ resp' = [resp EXCEPT ![p] = r]
    /\ pc' = [pc EXCEPT ![p] = "done"]

\* ------------------------------------------------------- scrape_handler
\* From the request to the end of the first .await: the SELECT by url and
\* the cache-hit return.
ScrapeSelectNoCache(p) ==
    /\ Arrives(p)
    /\ route' = [route EXCEPT ![p] = "/scrape"]
    /\ \E u \in Urls :
        /\ url' = [url EXCEPT ![p] = u]
        /\ existing_item' = [existing_item EXCEPT ![p] = None]
        /\ pc' = [pc EXCEPT ![p] = "fetch"]
        /\ UNCHANGED resp
    /\ UNCHANGED <<db, path_id, scrape_result, fetchCalls>>

ScrapeSelect(p) ==
    /\ Arrives(p)
    /\ route' = [route EXCEPT ![p] = "/scrape"]
    /\ \E u \in Urls :
        /\ url' = [url EXCEPT ![p] = u]
        /\ \/ /\ Respond(p, IntoResponse(FromSqlx(SqlxIo)))
              /\ UNCHANGED existing_item
           \/ LET found == FetchOptional(db, u) IN
              /\ existing_item' = [existing_item EXCEPT ![p] = found]
              /\ IF found.tag = "Some"
                 THEN Respond(p, ScrapeResponse(found.val.id, found.val.url,
                                                found.val.content))
                 ELSE /\ pc' = [pc EXCEPT ![p] = "fetch"]
                      /\ UNCHANGED resp
    /\ UNCHANGED <<db, path_id, scrape_result, fetchCalls>>

\* The outcomes of firecrawl_app.scrape_url(..).await: an error, a document
\* without Markdown, or a document with Markdown.
ScrapeOutcomes ==
    {Err(FirecrawlFailure), Ok(None)} \cup {Ok(Some(c)) : c \in Contents}

ScrapeFetchStoresFailure(p) ==
    /\ pc[p] = "fetch"
    /\ fetchCalls' = [fetchCalls EXCEPT ![url[p]] = @ + 1]
    /\ \E out \in ScrapeOutcomes :
        /\ scrape_result' = [scrape_result EXCEPT ![p] = out]
        /\ IF out.tag = "Err"
           THEN /\ Respond(p, IntoResponse(FromFirecrawl(out.err)))
                /\ \E t \in Timestamps(db) : db' = Insert(db, url[p], "", t).db
           ELSE /\ db' = db
                /\ IF out.val.tag = "None"
                   THEN Respond(p, IntoResponse(AppErrorInternal(NoMarkdownMsg)))
                   ELSE /\ pc' = [pc EXCEPT ![p] = "insert"]
                        /\ UNCHANGED resp
    /\ UNCHANGED <<route, url, path_id, existing_item>>

ScrapeFetchStoresEmpty(p) ==
    /\ pc[p] = "fetch"
    /\ fetchCalls' = [fetchCalls EXCEPT ![url[p]] = @ + 1]
    /\ \E out \in ScrapeOutcomes :
        /\ scrape_result' = [scrape_result EXCEPT ![p] = out]
        /\ IF out.tag = "Err"
           THEN /\ Respond(p, IntoResponse(FromFirecrawl(out.err)))
                /\ db' = db
           ELSE IF out.val.tag = "None"
                THEN /\ Respond(p, IntoResponse(AppErrorInternal(NoMarkdownMsg)))
                     /\ \E t \in Timestamps(db) : db' = Insert(db, url[p], "", t).db
                ELSE /\ pc' = [pc EXCEPT ![p] = "insert"]
                     /\ db' = db
                     /\ UNCHANGED resp
    /\ UNCHANGED <<route, url, path_id, existing_item>>

ScrapeFetchCoalesced(p) ==
    /\ pc[p] = "fetch"
    /\ fetchCalls' = IF \E q \in Procs \ {p} : url[q] = url[p] /\ scrape_result[q] # Unset
                     THEN fetchCalls
                     ELSE [fetchCalls EXCEPT ![url[p]] = @ + 1]
    /\ \E out \in ScrapeOutcomes :
        /\ scrape_result' = [scrape_result EXCEPT ![p] = out]
        /\ IF out.tag = "Err"
           THEN Respond(p, IntoResponse(FromFirecrawl(out.err)))
           ELSE IF out.val.tag = "None"
                THEN Respond(p, IntoResponse(AppErrorInternal(NoMarkdownMsg)))
                ELSE /\ pc' = [pc EXCEPT ![p] = "insert"]
                     /\ UNCHANGED resp
    /\ UNCHANGED <<db, route, url, path_id, existing_item>>

ScrapeFetch(p) ==
    /\ pc[p] = "fetch"
    /\ fetchCalls' = [fetchCalls EXCEPT ![url[p]] = @ + 1]
    /\ \E out \in ScrapeOutcomes :
        /\ scrape_result' = [scrape_result EXCEPT ![p] = out]
        /\ IF out.tag = "Err"
           THEN Respond(p, IntoResponse(FromFirecrawl(out.err)))
           ELSE IF out.val.tag = "None"
                THEN Respond(p, IntoResponse(AppErrorInternal(NoMarkdownMsg)))
                ELSE /\ pc' = [pc EXCEPT ![p] = "insert"]
                     /\ UNCHANGED resp
    /\ UNCHANGED <<db, route, url, path_id, existing_item>>

markdown_content(p) == scrape_result[p].val.val

\* The INSERT, last_insert_rowid() and the response built from the locals.
ScrapeInsertReturnsLength(p) ==
    /\ pc[p] = "insert"
    /\ \E t \in Timestamps(db) :
          LET r == Insert(db, url[p], markdown_content(p), t) IN
          /\ db' = r.db
          /\ IF r.result.tag = "Ok"
             THEN Respond(p, ScrapeResponse(Len(db), url[p], markdown_content(p)))
             ELSE Respond(p, IntoResponse(FromSqlx(r.result.err)))
    /\ UNCHANGED <<route, url, path_id, existing_item, scrape_result, fetchCalls>>

ScrapeInsert(p) ==
    /\ pc[p] = "insert"
    /\ \/ /\ Respond(p, IntoResponse(FromSqlx(SqlxIo)))
          /\ UNCHANGED db
       \/ \E t \in Timestamps(db) :
          LET r == Insert(db, url[p], markdown_content(p), t) IN
          /\ db' = r.db
          /\ IF r.result.tag = "Ok"
             THEN Respond(p, ScrapeResponse(r.result.val, url[p], markdown_content(p)))
             ELSE Respond(p, IntoResponse(FromSqlx(r.result.err)))
    /\ UNCHANGED <<route, url, path_id, existing_item, scrape_result, fetchCalls>>

\* -------------------------------------------------- get_history_handler
\* ORDER BY created_at DESC: any arrangement of the rows in which no row
\* comes before one with a later created_at.
Arrangements(d) ==
    {s \in [1..Len(d) -> Rows(d)] :
        /\ \A r \in Rows(d) : \E i \in 1..Len(d) : s[i] = r
        /\ \A i, j \in 1..Len(d) : i < j => s[i].created_at >= s[j].created_at}

GetHistory(p) ==
    /\ Arrives(p)
    /\ route' = [route EXCEPT ![p] = "/history"]
    /\ \/ Respond(p, IntoResponse(FromSqlx(SqlxIo)))
       \/ \E items \in Arrangements(db) : Respond(p, HistoryResponse(items))
    /\ UNCHANGED <<db, url, path_id, existing_item, scrape_result, fetchCalls>>

\* ----------------------------------------------------- get_item_handler
GetItem(p) ==
    /\ Arrives(p)
    /\ route' = [route EXCEPT ![p] = "/history/:id"]
    /\ \E id \in ItemIds :
        /\ path_id' = [path_id EXCEPT ![p] = id]
        /\ \/ Respond(p, IntoResponse(FromSqlx(SqlxIo)))
           \/ LET got == FetchOne(db, id) IN
              IF got.tag = "Ok"
              THEN Respond(p, ItemResponse(got.val))
              ELSE Respond(p, IntoResponse(FromSqlx(got.err)))
    /\ UNCHANGED <<db, url, existing_item, scrape_result, fetchCalls>>

Next ==
    \/ \E p \in Procs : ScrapeSelect(p) /\ UNCHANGED clientVars
    \/ \E p \in Procs : ScrapeFetch(p) /\ UNCHANGED clientVars
    \/ \E p \in Procs : ScrapeInsert(p) /\ UNCHANGED clientVars
    \/ \E p \in Procs : GetHistory(p) /\ UNCHANGED clientVars
    \/ \E p \in Procs : GetItem(p) /\ UNCHANGED clientVars

Spec == Init /\ [][Next]_vars

\* The same handlers under a client that sends a request only after the
\* previous one was answered.
Quiet(p) == \A q \in Procs \ {p} : pc[q] \in {"idle", "done"}

NextSeq ==
    \/ \E p \in Procs : Quiet(p) /\ ScrapeSelect(p) /\ UNCHANGED clientVars
    \/ \E p \in Procs : Quiet(p) /\ ScrapeFetch(p) /\ UNCHANGED clientVars
    \/ \E p \in Procs : Quiet(p) /\ ScrapeInsert(p) /\ UNCHANGED clientVars
    \/ \E p \in Procs : Quiet(p) /\ GetHistory(p) /\ UNCHANGED clientVars
    \/ \E p \in Procs : Quiet(p) /\ GetItem(p) /\ UNCHANGED clientVars

SpecSeq == Init /\ [][NextSeq]_vars

\* ======================================================= client (app.rs)
\* What the user can type into the URL field.
InputTexts == {"", " "} \cup Urls
Trim(text) == IF text \in {"", " "} THEN "" ELSE text

ScraperTypes == {"Firecrowl", "LLM"}
MetaMessages == {None, Some("no rows")}

HistoryItemSwapped(u, m) == [url |-> m, markdown |-> u]

HistoryItem(u, m) == [url |-> u, markdown |-> m]

\* ------------------------------------------------------- FrontendError
EHttp(e) == [variant |-> "EHttp", detail |-> e]
JsonParse(e) == [variant |-> "JsonParse", detail |-> e]
ApiError(msg) == [variant |-> "ApiError", detail |-> msg]

DisplayOther(e) == <<"Error: ", e.detail>>

Display(e) ==
    CASE e.variant = "EHttp" -> <<"HTTP request failed: ", e.detail>>
      [] e.variant = "JsonParse" -> <<"Failed to parse JSON response: ", e.detail>>
      [] e.variant = "ApiError" -> <<"API Error: ", e.detail>>

\* ------------------------------------------------ spawn_scrape_promise
\* Response bodies a server can send with a success status.
FirecrowlBodies ==
    {[schema |-> "Firecrowl", value |-> [url |-> u, content |-> c]] :
        u \in Urls, c \in Contents}
LlmBodies ==
    {[schema |-> "LLM",
      value |-> [data |-> Some([url |-> u, summary |-> c]), meta |-> [message |-> None]]] :
        u \in Urls, c \in Contents}
    \cup {[schema |-> "LLM", value |-> [data |-> None, meta |-> [message |-> m]]] :
            m \in MetaMessages}
Bodies == FirecrowlBodies \cup LlmBodies \cup {[schema |-> "malformed", value |-> None]}

\* ehttp::fetch_async: a transport error, or a response.
HttpOutcomes ==
    {Err("connection refused")}
    \cup {Ok([ok |-> TRUE, status |-> 200, bytes |-> b]) : b \in Bodies}
    \cup {Ok([ok |-> FALSE, status |-> 500, bytes |-> [schema |-> "malformed", value |-> None]])}

\* serde_json::from_slice::<T>
FromSlice(kind, bytes) ==
    IF bytes.schema = kind THEN Ok(bytes.value) ELSE Err(JsonParse("invalid"))

\* The value the unit of work sends for an outcome of the request.
ScrapePromiseResult(kind, fetched) ==
    IF fetched.tag = "Err" THEN Err(EHttp(fetched.err))
    ELSE IF fetched.val.ok THEN FromSlice(kind, fetched.val.bytes)
    ELSE Err(ApiError(<<"API request failed with status ", fetched.val.status>>))

Pending == [tag |-> "Pending"]
ActivePromise(kind, n) == [kind |-> kind, unit |-> n, sent |-> Pending]

\* promise.ready()
PromiseReady(promise) ==
    IF promise.sent = Pending THEN None ELSE Some(promise.sent)

\* The unit of work of the tracked promise finishes and sends its result.
Complete ==
    /\ scrape_promise # None
    /\ scrape_promise.val.sent = Pending
    /\ \E fetched \in HttpOutcomes :
          scrape_promise' = Some([scrape_promise.val EXCEPT
                !.sent = ScrapePromiseResult(scrape_promise.val.kind, fetched)])
    /\ UNCHANGED <<input_url, app_markdown_content, error_message, scrape_history,
                   selected_history_index, is_displaying_result, selected_scraper,
                   frame, submitted, applied, displaced>>

\* ------------------------------------------- update(): promise resolution
PushHistoryFront(history, item) ==
    IF history = <<>> \/ history[Len(history)].url # item.url
    THEN <<item>> \o history
    ELSE history

PushHistoryNever(history, item) == history

PushHistoryAlways(history, item) == Append(history, item)

PushHistoryReplace(history, item) ==
    IF history = <<>> \/ history[Len(history)].url # item.url
    THEN Append(history, item)
    ELSE [history EXCEPT ![Len(history)] = item]

PushHistory(history, item) ==
    IF history = <<>> \/ history[Len(history)].url # item.url
    THEN Append(history, item)
    ELSE history

ReadyEffect(item) ==
    /\ app_markdown_content' = Some(item.markdown)
    /\ error_message' = None
    /\ is_displaying_result' = TRUE
    /\ scrape_history' = PushHistory(scrape_history, item)
    /\ selected_history_index' = Some(Len(scrape_history') - 1)

ErrorEffectKeepsSelection(msg) ==
    /\ error_message' = Some(msg)
    /\ app_markdown_content' = None
    /\ is_displaying_result' = FALSE
    /\ UNCHANGED <<scrape_history, selected_history_index>>

ErrorEffectDisplaysResult(msg) ==
    /\ error_message' = Some(msg)
    /\ app_markdown_content' = None
    /\ selected_history_index' = None
    /\ is_displaying_result' = TRUE
    /\ UNCHANGED scrape_history

ErrorEffect(msg) ==
    /\ error_message' = Some(msg)
    /\ app_markdown_content' = None
    /\ selected_history_index' = None
    /\ is_displaying_result' = FALSE
    /\ UNCHANGED scrape_history

NoDataMsg == <<"API returned success but no data">>

\* The match on the result of a finished promise.
ApplyResult(kind, result) ==
    IF result.tag = "Err" THEN ErrorEffect(Display(result.err))
    ELSE IF kind = "Firecrowl"
         THEN ReadyEffect(HistoryItem(result.val.url, result.val.content))
         ELSE IF result.val.data.tag = "Some"
              THEN ReadyEffect(HistoryItem(result.val.data.val.url,
                                           result.val.data.val.summary))
              ELSE ErrorEffect(NoDataMsg)

TickResolveKeepsPromise ==
    /\ frame = "resolve"
    /\ frame' = "ui"
    /\ IF scrape_promise # None /\ PromiseReady(scrape_promise.val) # None
       THEN /\ ApplyResult(scrape_promise.val.kind, PromiseReady(scrape_promise.val).val)
            /\ applied' = applied \cup {scrape_promise.val.unit}
            /\ UNCHANGED scrape_promise
       ELSE UNCHANGED <<app_markdown_content, error_message, scrape_history,
                        selected_history_index, is_displaying_result,
                        scrape_promise, applied>>
    /\ UNCHANGED <<input_url, selected_scraper, submitted, displaced>>

\* First part of a frame: lines 187-273.
TickResolve ==
    /\ frame = "resolve"
    /\ frame' = "ui"
    /\ IF scrape_promise # None /\ PromiseReady(scrape_promise.val) # None
       THEN /\ ApplyResult(scrape_promise.val.kind, PromiseReady(scrape_promise.val).val)
            /\ scrape_promise' = None
            /\ applied' = applied \cup {scrape_promise.val.unit}
       ELSE UNCHANGED <<app_markdown_content, error_message, scrape_history,
                        selected_history_index, is_displaying_result,
                        scrape_promise, applied>>
    /\ UNCHANGED <<input_url, selected_scraper, submitted, displaced>>

\* --------------------------------------------------- update(): the panels
is_loading_never == FALSE

is_loading ==
    scrape_promise # None /\ PromiseReady(scrape_promise.val) = None

url_input_enabled == ~is_loading
scrape_button_enabled_untrimmed == ~is_loading /\ input_url # ""
scrape_button_enabled == ~is_loading /\ Trim(input_url) # ""

\* The frame draws the panels and takes no input.
Redraw ==
    /\ frame = "ui"
    /\ frame' = "resolve"
    /\ UNCHANGED <<input_url, app_markdown_content, error_message, scrape_promise,
                   scrape_history, selected_history_index, is_displaying_result,
                   selected_scraper, submitted, applied, displaced>>

SelectHistoryReversed(i) ==
    /\ frame = "ui"
    /\ frame' = "resolve"
    /\ i \in 0..(Len(scrape_history) - 1)
    /\ selected_history_index' = Some(i)
    /\ app_markdown_content' = Some(scrape_history[Len(scrape_history) - i].markdown)
    /\ error_message' = None
    /\ input_url' = scrape_history[Len(scrape_history) - i].url
    /\ UNCHANGED <<scrape_promise, scrape_history, is_displaying_result,
                   selected_scraper, submitted, applied, displaced>>

SelectHistoryKeepsError(i) ==
    /\ frame = "ui"
    /\ frame' = "resolve"
    /\ i \in 0..(Len(scrape_history) - 1)
    /\ selected_history_index' = Some(i)
    /\ app_markdown_content' = Some(scrape_history[i + 1].markdown)
    /\ input_url' = scrape_history[i + 1].url
    /\ UNCHANGED <<error_message, scrape_promise, scrape_history, is_displaying_result,
                   selected_scraper, submitted, applied, displaced>>

\* A click on entry i of the history panel.
SelectHistory(i) ==
    /\ frame = "ui"
    /\ frame' = "resolve"
    /\ i \in 0..(Len(scrape_history) - 1)
    /\ selected_history_index' = Some(i)
    /\ app_markdown_content' = Some(scrape_history[i + 1].markdown)
    /\ error_message' = None
    /\ input_url' = scrape_history[i + 1].url
    /\ UNCHANGED <<scrape_promise, scrape_history, is_displaying_result,
                   selected_scraper, submitted, applied, displaced>>

ClickNewKeepsUrl ==
    /\ frame = "ui"
    /\ frame' = "resolve"
    /\ is_displaying_result
    /\ app_markdown_content' = None
    /\ error_message' = None
    /\ selected_history_index' = None
    /\ is_displaying_result' = FALSE
    /\ UNCHANGED <<input_url, scrape_promise, scrape_history, selected_scraper,
                   submitted, applied, displaced>>

\* A click on "New".
ClickNew ==
    /\ frame = "ui"
    /\ frame' = "resolve"
    /\ is_displaying_result
    /\ input_url' = ""
    /\ app_markdown_content' = None
    /\ error_message' = None
    /\ selected_history_index' = None
    /\ is_displaying_result' = FALSE
    /\ UNCHANGED <<scrape_promise, scrape_history, selected_scraper, submitted,
                   applied, displaced>>

\* Typing into the URL field.
EditUrl(text) ==
    /\ frame = "ui"
    /\ frame' = "resolve"
    /\ ~is_displaying_result
    /\ url_input_enabled
    /\ input_url' = text
    /\ UNCHANGED <<app_markdown_content, error_message, scrape_promise, scrape_history,
                   selected_history_index, is_displaying_result, selected_scraper,
                   submitted, applied, displaced>>

\* A choice in the scraper ComboBox.
SelectScraper(kind) ==
    /\ frame = "ui"
    /\ frame' = "resolve"
    /\ ~is_displaying_result
    /\ ~is_loading
    /\ selected_scraper' = kind
    /\ UNCHANGED <<input_url, app_markdown_content, error_message, scrape_promise,
                   scrape_history, selected_history_index, is_displaying_result,
                   submitted, applied, displaced>>

\* Lines 408-450, reached with trigger_scrape && scrape_button_enabled.
TriggerScrape ==
    IF Trim(input_url) # ""
    THEN /\ error_message' = None
         /\ app_markdown_content' = None
         /\ selected_history_index' = None
         /\ scrape_promise' = Some(ActivePromise(selected_scraper, submitted + 1))
         /\ submitted' = submitted + 1
         /\ displaced' = IF scrape_promise = None THEN displaced
                         ELSE displaced \cup {scrape_promise.val.unit}
    ELSE /\ error_message' = Some(<<"Please enter a URL.">>)
         /\ UNCHANGED <<app_markdown_content, selected_history_index, scrape_promise,
                        submitted, displaced>>

ClickScrapeWhileDisplaying ==
    /\ frame = "ui"
    /\ frame' = "resolve"
    /\ scrape_button_enabled
    /\ submitted < MaxSubmits
    /\ TriggerScrape
    /\ UNCHANGED <<input_url, scrape_history, is_displaying_result, selected_scraper,
                   applied>>

\* A click on the Scrape button.
ClickScrape ==
    /\ frame = "ui"
    /\ frame' = "resolve"
    /\ ~is_displaying_result
    /\ scrape_button_enabled
    /\ submitted < MaxSubmits
    /\ TriggerScrape
    /\ UNCHANGED <<input_url, scrape_history, is_displaying_result, selected_scraper,
                   applied>>

\* Enter pressed in the URL field.
PressEnter ==
    /\ frame = "ui"
    /\ frame' = "resolve"
    /\ ~is_displaying_result
    /\ url_input_enabled
    /\ submitted < MaxSubmits
    /\ IF scrape_button_enabled
       THEN TriggerScrape
       ELSE UNCHANGED <<error_message, app_markdown_content, selected_history_index,
                        scrape_promise, submitted, displaced>>
    /\ UNCHANGED <<input_url, scrape_history, is_displaying_result, selected_scraper,
                   applied>>

NextClient ==
    \/ Complete /\ UNCHANGED vars
    \/ TickResolve /\ UNCHANGED vars
    \/ Redraw /\ UNCHANGED vars
    \/ \E i \in 0..(MaxSubmits - 1) : SelectHistory(i) /\ UNCHANGED vars
    \/ ClickNew /\ UNCHANGED vars
    \/ \E text \in InputTexts : EditUrl(text) /\ UNCHANGED vars
    \/ \E kind \in ScraperTypes : SelectScraper(kind) /\ UNCHANGED vars
    \/ ClickScrape /\ UNCHANGED vars
    \/ PressEnter /\ UNCHANGED vars

SpecClient == Init /\ [][NextClient]_clientVars

\* =================================================================== claims
StoreIoResponse == IntoResponse(FromSqlx(SqlxIo))
ConflictResponse == IntoResponse(FromSqlx(SqlxUnique))
Scrapes(u) == {p \in Procs : route[p] = "/scrape" /\ url[p] = u}
GotMarkdown(p) == scrape_result[p].tag = "Ok" /\ scrape_result[p].val.tag = "Some"
CalledProvider(p) == scrape_result[p] # Unset
IndexesWithUrl(d, u) == {i \in 1..Len(d) : d[i].url = u}

\* C1 (as claimed): every POST /scrape whose provider call, if it made one,
\* returned Markdown, and whose store did not fail with an I/O error, is
\* answered 200 with a document for its URL; a UNIQUE conflict on the INSERT
\* is never the answer.
C1_RaceTolerance ==
    \A p \in Procs :
        (/\ route[p] = "/scrape"
         /\ pc[p] = "done"
         /\ (CalledProvider(p) => GotMarkdown(p))
         /\ resp[p] # StoreIoResponse)
        => /\ resp[p].status = 200
           /\ resp[p].url = url[p]
           /\ resp[p] # ConflictResponse

\* C2: the table never holds two rows with the same url.
C2_OneRecordPerUrl ==
    \A u \in Urls : Cardinality(IndexesWithUrl(db, u)) <= 1

\* A task lost the INSERT race: its fetched content differs from the one
\* stored row of its URL.
C2_Witness ==
    \E p \in Procs :
        /\ pc[p] = "done" /\ GotMarkdown(p) /\ resp[p] = ConflictResponse
        /\ \E r \in Rows(db) : r.url = url[p] /\ r.content # markdown_content(p)

\* C3: a POST /scrape whose SELECT finds a row for its URL answers 200 with
\* that row's id, url and content in that same step, leaves the table and the
\* provider's call count as they were, and never calls the provider.
C3_CacheHitStep ==
    \A p \in Procs :
        (/\ pc[p] = "idle" /\ pc'[p] # "idle" /\ route'[p] = "/scrape"
         /\ RowsWithUrl(db, url'[p]) # {}
         /\ resp'[p] # StoreIoResponse)
        => /\ pc'[p] = "done"
           /\ \E r \in Rows(db) :
                 r.url = url'[p] /\ resp'[p] = ScrapeResponse(r.id, r.url, r.content)
           /\ db' = db
           /\ fetchCalls' = fetchCalls

C3_HitNeverFetches ==
    \A p \in Procs :
        existing_item[p].tag = "Some" => pc[p] = "done" /\ ~CalledProvider(p)

C3_CacheHit == [][C3_CacheHitStep]_vars /\ []C3_HitNeverFetches

C3_Witness ==
    \E p \in Procs :
        /\ existing_item[p].tag = "Some"
        /\ resp[p].status = 200
        /\ fetchCalls[url[p]] = 1

\* C4: when POST /scrape calls for one URL come one after another and an
\* earlier one found no row and was answered 200, every later one that the
\* store answers gets 200 with the same id and content without calling the
\* provider; if these two are the only calls for the URL the provider was
\* invoked exactly once.
C4_IdempotentResolve ==
    \A p, q \in Procs :
        (/\ p < q /\ route[p] = "/scrape" /\ route[q] = "/scrape"
         /\ url[p] = url[q]
         /\ existing_item[p] = None /\ resp[p].status = 200
         /\ pc[q] = "done" /\ resp[q] # StoreIoResponse)
        => /\ resp[q].status = 200
           /\ resp[q].id = resp[p].id
           /\ resp[q].content = resp[p].content
           /\ ~CalledProvider(q)
           /\ (Scrapes(url[p]) = {p, q} => fetchCalls[url[p]] = 1)

C4_Witness ==
    \E p, q \in Procs :
        /\ p < q /\ url[p] = url[q] /\ route[q] = "/scrape"
        /\ existing_item[p] = None /\ resp[p].status = 200
        /\ resp[q].status = 200 /\ resp[q].content = resp[p].content
        /\ fetchCalls[url[p]] = 1

\* C5: the step in which scrape_url fails answers 500 "Scraping service
\* failed" and leaves the table as it was; every stored row holds the
\* Markdown some task's provider call returned for that URL.
C5_FetchFailureStep ==
    \A p \in Procs :
        (pc[p] = "fetch" /\ scrape_result'[p].tag = "Err")
        => /\ db' = db
           /\ pc'[p] = "done"
           /\ resp'[p] = ErrorResponse(500, <<"Scraping service failed: ", FirecrawlFailure>>)

C5_RowsComeFromFetches ==
    \A r \in Rows(db) :
        \E p \in Procs : url[p] = r.url /\ scrape_result[p] = Ok(Some(r.content))

C5_FailedFetchStoresNothing ==
    [][C5_FetchFailureStep]_vars /\ []C5_RowsComeFromFetches

C5_Witness ==
    \E p \in Procs :
        /\ scrape_result[p].tag = "Err"
        /\ resp[p].status = 500
        /\ RowsWithUrl(db, url[p]) = {}

\* C6: every 200 answer of POST /scrape carries the requested url and the id
\* and content of the row stored for that url.
C6_ResponseIsStoredRecord ==
    \A p \in Procs :
        (route[p] = "/scrape" /\ resp[p].status = 200)
        => /\ resp[p].url = url[p]
           /\ \E r \in Rows(db) :
                 /\ r.url = url[p]
                 /\ r.id = resp[p].id
                 /\ r.content = resp[p].content

\* Two tasks fetched different content for one URL; one was answered 200.
C6_Witness ==
    \E p, q \in Procs :
        /\ p # q /\ url[p] = url[q]
        /\ GotMarkdown(p) /\ GotMarkdown(q)
        /\ markdown_content(p) # markdown_content(q)
        /\ pc[p] = "done" /\ pc[q] = "done"
        /\ resp[q].status = 200

\* C7: with requests one after another, a POST /scrape that missed, got
\* Markdown and was answered by the store leaves exactly one row for its url,
\* holding that Markdown, and answers 200 with that row's id, the url and the
\* Markdown; ids are handed out 1, 2, ... in insertion order.
C7_MissStoresAndReturns ==
    /\ \A p \in Procs :
          (/\ pc[p] = "done" /\ GotMarkdown(p) /\ resp[p] # StoreIoResponse)
          => /\ Cardinality(IndexesWithUrl(db, url[p])) = 1
             /\ \E r \in Rows(db) :
                   /\ r.url = url[p]
                   /\ r.content = markdown_content(p)
                   /\ resp[p] = ScrapeResponse(r.id, url[p], markdown_content(p))
    /\ \A i \in 1..Len(db) : db[i].id = i

C7_Witness ==
    /\ Len(db) = 1
    /\ resp[1] = ScrapeResponse(1, "http://example.com", "# Title")
    /\ \A q \in Procs \ {1} : pc[q] = "idle"

\* C8: every step keeps every stored row, at its place and with its id, url,
\* content and created_at.
C8_RecordsImmutable ==
    [][\A i \in 1..Len(db) : i <= Len(db') /\ db'[i] = db[i]]_vars

\* Both URLs are stored and an INSERT for a stored URL was rejected.
C8_Witness ==
    /\ Len(db) = 2
    /\ \E p \in Procs : resp[p] = ConflictResponse

\* C9 (as claimed): when N >= 2 requests for one URL have missed and are in
\* flight together, and no other request for it was made, the provider has
\* been invoked fewer than N times.
C9_Coalescing ==
    \A u \in Urls :
        LET inFlight == {p \in Scrapes(u) : pc[p] \in {"fetch", "insert"}} IN
        (Scrapes(u) = inFlight /\ Cardinality(inFlight) >= 2)
        => fetchCalls[u] < Cardinality(inFlight)

\* C9 (amended): every POST /scrape that misses invokes the provider itself,
\* once: the provider's call count for a URL is the number of requests for
\* it that missed and went past the call.
C9_OneFetchPerMiss ==
    /\ \A u \in Urls :
          fetchCalls[u] = Cardinality({p \in Scrapes(u) : CalledProvider(p)})
    /\ \A p \in Procs :
          (existing_item[p] = None /\ pc[p] \in {"insert", "done"}) => CalledProvider(p)
    /\ \A p \in Procs : CalledProvider(p) => existing_item[p] = None

C9_Witness ==
    \E p, q \in Procs :
        /\ p # q /\ url[p] = url[q]
        /\ pc[p] = "insert" /\ pc[q] = "insert"
        /\ fetchCalls[url[p]] = 2

\* C10: the step that answers a request gives 200, 404 or 500; 404 exactly
\* when GET /history/:id asked for an id with no row and the store did not
\* fail; a failed provider call and every store failure give 500; every
\* error answer is an ErrorResponse with a message.
C10_AnswerStep ==
    \A p \in Procs :
        (pc[p] # "done" /\ pc'[p] = "done")
        => LET absent == route'[p] = "/history/:id" /\ RowsWithId(db, path_id'[p]) = {}
               r == resp'[p]
           IN /\ r.status \in {200, 404, 500}
              /\ r.status = 404 => absent
              /\ (absent /\ r # StoreIoResponse) => r.status = 404
              /\ r.status # 200 => r.kind = "ErrorResponse" /\ r.message # <<>>
              /\ scrape_result'[p].tag = "Err" => r.status = 500
              /\ (Len(r.message) = 2 /\ r.message[1] = "Database operation failed: ")
                    => r.status = 500

C10_ErrorStatusMapping == [][C10_AnswerStep]_vars

C10_Witness ==
    \E p, q, o \in Procs :
        /\ resp[p].status = 404 /\ route[p] = "/history/:id"
        /\ resp[q].status = 500 /\ scrape_result[q].tag = "Err"
        /\ resp[o] = StoreIoResponse

\* C11 (as claimed): the step that answers GET /history lists every stored
\* row exactly once with each row before all rows inserted earlier, also
\* when rows share a created_at second: the list is the table in reverse
\* insertion order.
NewestFirst(d) == [i \in 1..Len(d) |-> d[Len(d) + 1 - i]]

C11_HistoryStep ==
    \A p \in Procs :
        (pc[p] # "done" /\ pc'[p] = "done" /\ resp'[p].kind = "History")
        => resp'[p].items = NewestFirst(db)

C11_HistoryNewestFirst == [][C11_HistoryStep]_vars

\* ------------------------------------------------------- client claims
Tracked == IF scrape_promise = None THEN {} ELSE {scrape_promise.val.unit}
Units == 1..submitted
Ledger(i) == scrape_history[i + 1]

\* C12 (as claimed): a step that dispatches a new unit of work is taken only
\* when no handle is tracked (scrape_promise is None), so no tracked handle
\* is ever overwritten.
C12_SubmitStep == submitted' # submitted => scrape_promise = None

C12_SubmitOnlyWhenUntracked == [][C12_SubmitStep]_clientVars

\* C13: only the frame's promise check applies a result, only of the tracked
\* unit, only once, and it releases the handle in that step; a promise check
\* that finds no handle or an unfinished unit changes neither the ledger nor
\* the displayed content, the error message or the selection.
C13_Step ==
    LET checks == frame = "resolve" /\ frame' = "ui"
        ready == scrape_promise # None /\ scrape_promise.val.sent # Pending
    IN /\ (checks /\ ready)
            => /\ scrape_promise.val.unit \notin applied
               /\ applied' = applied \cup {scrape_promise.val.unit}
               /\ scrape_promise' = None
               /\ (is_displaying_result' /\ app_markdown_content' # None)
                     \/ (~is_displaying_result' /\ error_message' # None)
       /\ (checks /\ ~ready)
            => UNCHANGED <<scrape_history, app_markdown_content, error_message,
                           selected_history_index, applied, scrape_promise>>
       /\ (applied' # applied \/ scrape_history' # scrape_history) => (checks /\ ready)

C13_AppliedOnce == [][C13_Step]_clientVars

\* A frame has passed since the only submission was applied.
C13_Witness ==
    /\ submitted = 1 /\ applied = {1}
    /\ scrape_promise = None
    /\ frame = "resolve"
    /\ Len(scrape_history) = 1

\* C14 (as claimed): no unit of work is lost: every dispatched unit is still
\* tracked by the slot or its result was applied.
C14_NoResultDropped == \A n \in Units : n \in applied \/ n \in Tracked

\* The (url, document) a finished promise carries when it is a success.
IsReadyResult(promise) ==
    /\ promise.sent # Pending
    /\ promise.sent.tag = "Ok"
    /\ (promise.kind = "LLM" => promise.sent.val.data.tag = "Some")

ReadyItem(promise) ==
    IF promise.kind = "Firecrowl"
    THEN HistoryItem(promise.sent.val.url, promise.sent.val.content)
    ELSE HistoryItem(promise.sent.val.data.val.url, promise.sent.val.data.val.summary)

EntersReady ==
    /\ frame = "resolve" /\ frame' = "ui"
    /\ scrape_promise # None /\ IsReadyResult(scrape_promise.val)

EntersError ==
    /\ frame = "resolve" /\ frame' = "ui"
    /\ scrape_promise # None /\ scrape_promise.val.sent # Pending
    /\ ~IsReadyResult(scrape_promise.val)

LastUrlIs(u) ==
    scrape_history # <<>> /\ scrape_history[Len(scrape_history)].url = u

\* C15: the step that enters Ready with (url, document) leaves the ledger as
\* it is when url is the last entry's url and otherwise appends exactly the
\* entry (url, document); either way the selection becomes the index of the
\* ledger's last entry.
C15_Step ==
    EntersReady =>
        LET item == ReadyItem(scrape_promise.val) IN
        /\ IF LastUrlIs(item.url)
           THEN scrape_history' = scrape_history
           ELSE scrape_history' = Append(scrape_history, item)
        /\ selected_history_index' = Some(Len(scrape_history') - 1)
        /\ is_displaying_result'

C15_ReadyAppends == [][C15_Step]_clientVars

\* Ready was just entered for the last entry's url with another document.
C15_Witness ==
    /\ frame = "ui" /\ is_displaying_result
    /\ Len(scrape_history) = 2
    /\ selected_history_index = Some(1)
    /\ app_markdown_content # Some(Ledger(1).markdown)

\* C16: the step that enters Error leaves the ledger as it is, clears the
\* selection and stores a message.
C16_Step ==
    EntersError =>
        /\ scrape_history' = scrape_history
        /\ selected_history_index' = None
        /\ error_message' # None
        /\ ~is_displaying_result'

C16_ErrorKeepsLedger == [][C16_Step]_clientVars

\* An empty envelope was applied after an entry had been stored.
C16_Witness ==
    /\ frame = "ui"
    /\ error_message = Some(NoDataMsg)
    /\ selected_history_index = None
    /\ Len(scrape_history) = 1
    /\ applied = {1, 2}

\* C17: no two neighbours in the ledger have the same url, and entering
\* Ready for the last entry's url keeps that entry, with its document.
C17_NoAdjacentDuplicates ==
    \A i \in 1..(Len(scrape_history) - 1) :
        scrape_history[i].url # scrape_history[i + 1].url

C17_Step ==
    (EntersReady /\ LastUrlIs(ReadyItem(scrape_promise.val).url))
        => /\ Len(scrape_history') = Len(scrape_history)
           /\ scrape_history'[Len(scrape_history)] = scrape_history[Len(scrape_history)]

C17_ConsecutiveDedup == []C17_NoAdjacentDuplicates /\ [][C17_Step]_clientVars

\* x, y, x: the same url twice with another one in between.
C17_Witness ==
    /\ Len(scrape_history) = 3
    /\ scrape_history[1].url = scrape_history[3].url
    /\ scrape_history[2].url # scrape_history[1].url

\* C18 (as claimed): entering Error for an envelope without data stores an
\* ApiError message carrying meta.message when there is one, and the generic
\* no-data message only when there is none.
C18_Step ==
    (/\ EntersError
     /\ scrape_promise.val.kind = "LLM"
     /\ scrape_promise.val.sent.tag = "Ok")
    => LET meta == scrape_promise.val.sent.val.meta IN
       IF meta.message = None
       THEN error_message' = Some(NoDataMsg)
       ELSE error_message' = Some(Display(ApiError(meta.message.val)))

C18_EmptyEnvelopeMessage == [][C18_Step]_clientVars

\* C19: a new unit of work is dispatched only when no unit is running, and
\* a unit whose handle was overwritten is never applied: of a submission and
\* the one that displaced it at most the second materializes.
C19_Step ==
    submitted' # submitted
        => /\ ~(scrape_promise # None /\ scrape_promise.val.sent = Pending)
           /\ submitted' = submitted + 1
           /\ scrape_promise' # None
           /\ scrape_promise'.val.unit = submitted'

C19_DisplacedNeverApplied ==
    /\ displaced \cap applied = {}
    /\ Tracked \subseteq {submitted}

C19_SingleFlight == []C19_DisplacedNeverApplied /\ [][C19_Step]_clientVars

\* Unit 1 was displaced by unit 2, and unit 2 was applied.
C19_Witness == 1 \in displaced /\ 2 \in applied

\* C20: a step that moves the selection to entry i shows ledger[i].document,
\* puts ledger[i].url into the URL field, and leaves the ledger and the
\* handle as they are; no step of the panels changes the ledger.
C20_Step ==
    /\ (/\ frame = "ui"
        /\ selected_history_index' # selected_history_index
        /\ selected_history_index' # None)
       => LET i == selected_history_index'.val IN
          /\ i \in 0..(Len(scrape_history) - 1)
          /\ app_markdown_content' = Some(Ledger(i).markdown)
          /\ input_url' = Ledger(i).url
          /\ scrape_history' = scrape_history
          /\ scrape_promise' = scrape_promise
    /\ (frame = "ui" /\ frame' = "resolve") => scrape_history' = scrape_history

C20_SelectHistory == [][C20_Step]_clientVars

\* The first of two entries was selected while a unit of work is running.
C20_Witness ==
    /\ Len(scrape_history) = 2
    /\ selected_history_index = Some(0)
    /\ app_markdown_content = Some(Ledger(0).markdown)
    /\ input_url = Ledger(0).url
    /\ scrape_promise # None /\ scrape_promise.val.sent = Pending

\* The class of failure of a request's outcome, as the claim names them.
FailureClass(kind, fetched) ==
    IF fetched.tag = "Err" THEN "transport"
    ELSE IF ~fetched.val.ok THEN "api"
    ELSE IF fetched.val.bytes.schema # kind THEN "decode"
    ELSE "none"

\* The class a stored message shows by its form.
MessageClass(msg) ==
    CASE msg[1] = "HTTP request failed: " -> "transport"
      [] msg[1] = "Failed to parse JSON response: " -> "decode"
      [] msg[1] = "API Error: " -> "api"
      [] OTHER -> "unknown"

\* C21: a failed request is classified by its kind of failure (transport,
\* decode, api), and the message stored on entering Error is the display of
\* that error, whose form alone identifies the class.
C21_Classified ==
    \A kind \in ScraperTypes, fetched \in HttpOutcomes :
        LET result == ScrapePromiseResult(kind, fetched) IN
        IF FailureClass(kind, fetched) = "none"
        THEN result.tag = "Ok"
        ELSE /\ result.tag = "Err"
             /\ MessageClass(Display(result.err)) = FailureClass(kind, fetched)

C21_Step ==
    (EntersError /\ scrape_promise.val.sent.tag = "Err")
        => /\ error_message' # None
           /\ MessageClass(error_message'.val) =
                 (CASE scrape_promise.val.sent.err.variant = "EHttp" -> "transport"
                    [] scrape_promise.val.sent.err.variant = "JsonParse" -> "decode"
                    [] scrape_promise.val.sent.err.variant = "ApiError" -> "api")
           /\ error_message'.val[2] = scrape_promise.val.sent.err.detail

C21_FailureClassification == []C21_Classified /\ [][C21_Step]_clientVars

\* A decode failure was applied: the slot shows its message.
C21_Witness ==
    /\ frame = "ui"
    /\ scrape_promise = None
    /\ error_message # None
    /\ MessageClass(error_message.val) = "decode"
    /\ ~is_displaying_result

\* C22: entering Ready shows the response's content (direct schema) or
\* data.summary (enveloped schema) as it came, and an entry appended by that
\* step carries that document and the url of the response.
C22_Step ==
    EntersReady =>
        LET response == scrape_promise.val.sent.val
            doc == IF scrape_promise.val.kind = "Firecrowl"
                   THEN response.content ELSE response.data.val.summary
            u == IF scrape_promise.val.kind = "Firecrowl"
                 THEN response.url ELSE response.data.val.url
        IN /\ app_markdown_content' = Some(doc)
           /\ Len(scrape_history') # Len(scrape_history)
                => /\ scrape_history'[Len(scrape_history')].markdown = doc
                   /\ scrape_history'[Len(scrape_history')].url = u

C22_Normalization == [][C22_Step]_clientVars

\* The result of an LLM unit was applied and appended.
C22_Witness ==
    /\ frame = "ui"
    /\ submitted = 1 /\ applied = {1}
    /\ selected_scraper = "LLM"
    /\ is_displaying_result
    /\ Len(scrape_history) = 1
    /\ app_markdown_content = Some(Ledger(0).markdown)

\* C23 (as claimed): a frame looks at the unit's completion once: when its
\* promise check left the handle in place (the unit was not complete), the
\* rest of the frame still sees the slot as Loading and leaves the handle
\* and the ledger as they are.
C23_Step ==
    (frame = "ui" /\ frame' = "resolve" /\ scrape_promise # None)
        => /\ is_loading
           /\ scrape_promise' = scrape_promise
           /\ scrape_history' = scrape_history

C23_OnePollPerTick == [][C23_Step]_clientVars

\* A frame in which the user's click or Enter dispatches a unit of work.
Submit == (ClickScrape \/ PressEnter) /\ submitted' = submitted + 1

\* The slot shows a result and holds no handle.
Ready == is_displaying_result /\ scrape_promise = None

\* C24 (as claimed): in Ready, with a non-blank URL in the field, the frame
\* accepts a submission: no "New" is needed first.
C24_SubmitFromReady ==
    (/\ Ready
     /\ frame = "ui"
     /\ Trim(input_url) # ""
     /\ submitted < MaxSubmits)
    => ENABLED Submit

\* C25: entering Error stores a message, releases the handle and shows the
\* input row; from then on a frame accepts a submission of a non-blank URL
\* with no "New" in between, and a unit of work is dispatched only by the
\* user's click or Enter, never by the frame itself.
C25_Step ==
    /\ EntersError
         => /\ error_message' # None
            /\ scrape_promise' = None
            /\ ~is_displaying_result'
            /\ submitted' = submitted
    /\ submitted' # submitted => Submit

C25_Interactive ==
    (/\ error_message # None
     /\ scrape_promise = None
     /\ frame = "ui"
     /\ Trim(input_url) # ""
     /\ submitted < MaxSubmits)
    => ENABLED Submit

C25_ErrorIsRetryable == []C25_Interactive /\ [][C25_Step]_clientVars

\* The first unit failed, and a second submission is running.
C25_Witness ==
    /\ submitted = 2 /\ applied = {1} /\ displaced = {}
    /\ scrape_history = <<>>
    /\ scrape_promise # None /\ scrape_promise.val.unit = 2
    /\ error_message = None

\* C26: every step of the client keeps the ledger it found as a prefix of
\* the ledger it leaves, and adds at most one entry.
C26_Step ==
    /\ Len(scrape_history') \in {Len(scrape_history), Len(scrape_history) + 1}
    /\ \A i \in 1..Len(scrape_history) : scrape_history'[i] = scrape_history[i]

C26_AppendOnly == [][C26_Step]_clientVars

\* Two entries are stored, and after "New" the older one is still listed.
C26_Witness ==
    /\ Len(scrape_history) = 2
    /\ ~is_displaying_result
    /\ scrape_promise = None
    /\ applied = {1, 2}
    /\ scrape_history[1].url # scrape_history[2].url

\* C27: "New" can be clicked only while a result is displayed; it empties
\* the URL field, the displayed content, the error message and the
\* selection, resets the flag and leaves ledger and handle as they are;
\* afterwards, with no handle tracked, a non-blank URL can be submitted.
C27_Step ==
    (is_displaying_result /\ ~is_displaying_result')
        => /\ frame = "ui"
           /\ input_url' = ""
           /\ app_markdown_content' = None
           /\ error_message' = None
           /\ selected_history_index' = None
           /\ scrape_history' = scrape_history
           /\ scrape_promise' = scrape_promise

C27_Available ==
    /\ ENABLED ClickNew => is_displaying_result
    /\ (/\ ~is_displaying_result
        /\ scrape_promise = None
        /\ frame = "ui"
        /\ Trim(input_url) # ""
        /\ submitted < MaxSubmits)
       => ENABLED Submit

C27_Acknowledgment == []C27_Available /\ [][C27_Step]_clientVars

\* A result was displayed and acknowledged: the slot is Idle again.
C27_Witness ==
    /\ submitted = 1 /\ applied = {1}
    /\ Len(scrape_history) = 1
    /\ ~is_displaying_result
    /\ input_url = ""
    /\ app_markdown_content = None
    /\ selected_history_index = None

\* C28 (as claimed): whenever an entry is selected, the displayed content is
\* the document stored in that entry.
C28_SelectionShowsStored ==
    selected_history_index # None
        => app_markdown_content = Some(Ledger(selected_history_index.val).markdown)

\* C29: the selection is none or an index of the ledger, and entering Ready
\* leaves a ledger that is not empty.
C29_SelectionValid ==
    \/ selected_history_index = None
    \/ selected_history_index.val \in 0..(Len(scrape_history) - 1)

C29_Step == EntersReady => Len(scrape_history') >= 1

C29_SelectionInRange == []C29_SelectionValid /\ [][C29_Step]_clientVars

\* Ready was entered on an empty ledger.
C29_Witness ==
    /\ frame = "ui"
    /\ submitted = 1
    /\ is_displaying_result
    /\ Len(scrape_history) = 1
    /\ selected_history_index = Some(Len(scrape_history) - 1)

\* C30: the displayed content and the error message are never both set; a
\* step that sets one leaves the other empty, and a step that dispatches a
\* unit of work empties both and the selection.
C30_NotBoth == app_markdown_content = None \/ error_message = None

C30_Step ==
    /\ (app_markdown_content' # app_markdown_content /\ app_markdown_content' # None)
          => error_message' = None
    /\ (error_message' # error_message /\ error_message' # None)
          => app_markdown_content' = None
    /\ submitted' # submitted
          => /\ app_markdown_content' = None
             /\ error_message' = None
             /\ selected_history_index' = None

C30_ContentXorError == []C30_NotBoth /\ [][C30_Step]_clientVars

\* An error is shown although the ledger has an entry to display.
C30_Witness ==
    /\ frame = "ui"
    /\ error_message # None
    /\ app_markdown_content = None
    /\ Len(scrape_history) = 1
    /\ applied = {1, 2}

\* C31: between frames, while the displaying-result flag is set, no handle
\* is tracked, a document is displayed and no error message is set; and no
\* step dispatches a unit of work while the flag is set.
C31_DisplayingState ==
    (frame = "resolve" /\ is_displaying_result)
        => /\ scrape_promise = None
           /\ app_markdown_content # None
           /\ error_message = None

C31_Step == submitted' # submitted => (~is_displaying_result /\ ~is_displaying_result')

C31_DisplayingIsQuiet == []C31_DisplayingState /\ [][C31_Step]_clientVars

\* The older of two entries was selected while the result is displayed.
C31_Witness ==
    /\ frame = "resolve"
    /\ is_displaying_result
    /\ Len(scrape_history) = 2
    /\ selected_history_index = Some(0)
    /\ scrape_promise = None

PleaseEnterMsg == <<"Please enter a URL.">>

\* C32: a unit of work is dispatched only for a URL that is not blank after
\* trimming; Enter or a click with a blank URL creates no handle and changes
\* nothing, and the "Please enter a URL." message is never stored.
C32_Step ==
    /\ submitted' # submitted
          => /\ Trim(input_url) # ""
             /\ input_url' = input_url
             /\ scrape_promise' # None
    /\ ((PressEnter \/ ClickScrape) /\ Trim(input_url) = "")
          => UNCHANGED <<input_url, app_markdown_content, error_message, scrape_promise,
                         scrape_history, selected_history_index, is_displaying_result,
                         selected_scraper, submitted>>

C32_NoDefensiveError == error_message # Some(PleaseEnterMsg)

C32_NonBlankOnly == []C32_NoDefensiveError /\ [][C32_Step]_clientVars

\* After "New", only whitespace stands in the URL field and a frame went by.
C32_Witness ==
    /\ frame = "resolve"
    /\ input_url = " "
    /\ Len(scrape_history) = 1
    /\ ~is_displaying_result
    /\ scrape_promise = None
    /\ error_message = None
    /\ submitted = 1

\* C33: when the provider's call succeeds without a Markdown body, that
\* step answers 500 with the internal error's message and leaves the table
\* as it is, and the request never goes on to the INSERT.
C33_Step ==
    \A p \in Procs :
        (pc[p] = "fetch" /\ scrape_result'[p] = Ok(None))
        => /\ db' = db
           /\ pc'[p] = "done"
           /\ resp'[p] = ErrorResponse(500, <<NoMarkdownMsg>>)

C33_NoBodyNoRow ==
    \A p \in Procs :
        scrape_result[p] = Ok(None)
        => /\ pc[p] = "done"
           /\ resp[p].status = 500
           /\ \A r \in RowsWithUrl(db, url[p]) :
                 \E q \in Procs \ {p} : url[q] = url[p] /\ scrape_result[q] = Ok(Some(r.content))

C33_MissingMarkdown == [][C33_Step]_vars /\ []C33_NoBodyNoRow

\* A request got no Markdown body and its url has no row.
C33_Witness ==
    \E p \in Procs :
        /\ scrape_result[p] = Ok(None)
        /\ resp[p] = ErrorResponse(500, <<NoMarkdownMsg>>)
        /\ RowsWithUrl(db, url[p]) = {}

====
